---- MODULE Spec2Model ----
(***************************************************************************)
(* Model of the video subtitle render backend (src/main.py).               *)
(*                                                                         *)
(* The service is one asyncio event loop (uvicorn.run(app), one worker).   *)
(* Every handler is "async def": it runs on the event-loop thread and      *)
(* gives the thread up only at an "await" (render_video has one, line      *)
(* 128) or when it returns.  subprocess.run (line 176) is a synchronous    *)
(* call made on that thread.  The deferred cleanup task is a plain "def",  *)
(* so the framework runs it in a worker thread after the response.         *)
(***************************************************************************)
EXTENDS Integers, FiniteSets, Sequences, TLC

\* ---------------------------------------------------------------- bounds
MaxReqs == 2
NumIds == 2

Reqs == 1..MaxReqs
\* the values str(uuid.uuid4())[:8] can take
JobIds == 1..NumIds
NoReq == 0

\* sizes in bytes of the uploads, subtitle texts and encoder outputs tried
VideoSizes == {131072}
SrtSizes == {5243}
OutputSizes == {393216}

VARIABLES
    tempExists,   \* TEMP_DIR exists on disk
    fs,           \* fs[id]: the directory TEMP_DIR/<id>
    jobs,         \* jobs[r]: the state of render request r
    loop,         \* the request whose handler holds the event-loop thread, or NoReq
    lastResp,     \* the response of /health, /storage or /cleanup when the
                  \* last step served one of them, NoResp otherwise
    build         \* the command-building and error-reporting functions of
                  \* render_video applied to one input (BuildSpec)

vars == <<tempExists, fs, jobs, loop, lastResp, build>>

\* ------------------------------------------------------------ file system
\* a file: by = NoReq means the path does not exist; otherwise by is the
\* request whose bytes it holds
NoFile == [size |-> 0, by |-> NoReq]
NoDir == [exists |-> FALSE, input |-> NoFile, srt |-> NoFile, output |-> NoFile]
EmptyDir == [exists |-> TRUE, input |-> NoFile, srt |-> NoFile, output |-> NoFile]

FileExists(f) == f.by # NoReq

DirBytes(d) ==
    IF d.exists THEN d.input.size + d.srt.size + d.output.size ELSE 0

RECURSIVE SumBytes(_, _)
SumBytes(f, ids) ==
    IF ids = {} THEN 0
    ELSE LET i == CHOOSE x \in ids : TRUE
         IN DirBytes(f[i]) + SumBytes(f, ids \ {i})

\* round(x / (1024 * 1024), 2) for x bytes, in hundredths of a megabyte:
\* Python rounds the exactly representable quotient half to even
Round2MB(bytes) ==
    LET n == bytes * 100
        q == n \div 1048576
        rem == n % 1048576
    IN  IF 2 * rem < 1048576 THEN q
        ELSE IF 2 * rem > 1048576 THEN q + 1
        ELSE IF q % 2 = 0 THEN q ELSE q + 1

\* get_storage_usage(), lines 51-58, in bytes before the division
get_storage_usage(exists, f) ==
    IF exists THEN SumBytes(f, JobIds) ELSE 0

\* len(list(TEMP_DIR.iterdir())), line 80
JobDirCount(exists, f) ==
    IF exists THEN Cardinality({i \in JobIds : f[i].exists}) ELSE 0

\* a removal that leaves the directory behind, emptied
RemoveDir_ContentsOnly(f, id) == [f EXCEPT ![id] = EmptyDir]

\* shutil.rmtree(job_dir) having succeeded: the directory is gone
RemoveDir(f, id) == [f EXCEPT ![id] = NoDir]

\* a cleanup without the exists() test of line 44: rmtree raises on a
\* directory that is absent
cleanup_job_dir_NoExistsTest(f, id, rmOk) ==
    IF rmOk /\ f[id].exists THEN [fs |-> RemoveDir(f, id), outcome |-> "deleted"]
    ELSE [fs |-> f, outcome |-> "failed"]

\* a cleanup that reports the directory deleted and leaves it in place
cleanup_job_dir_Keep(f, id, rmOk) ==
    [fs |-> f, outcome |-> IF f[id].exists THEN "deleted" ELSE "absent"]

\* cleanup_job_dir(job_dir), lines 41-48.  rmOk: whether shutil.rmtree
\* succeeds; its exception is caught and printed.  Returns the new tree
\* and what happened.
cleanup_job_dir(f, id, rmOk) ==
    IF ~f[id].exists THEN [fs |-> f, outcome |-> "absent"]
    ELSE IF rmOk THEN [fs |-> RemoveDir(f, id), outcome |-> "deleted"]
    ELSE [fs |-> f, outcome |-> "failed"]

\* ------------------------------------------------------------- requests
NewJob ==
    [pc |-> "idle", job_id |-> 0, created |-> FALSE, orphan |-> FALSE,
     proc |-> "none", returncode |-> -1, outExists |-> FALSE,
     exc |-> "none", detail |-> "", reclaim |-> "none",
     resp |-> "none", status |-> 0, scheduled |-> FALSE,
     sent |-> "none", delivered |-> NoReq,
     ncleanup |-> 0, nrun |-> 0]

\* no input under the functions of BuildSpec
NoBuild == [stage |-> "none"]

NoResp == [ep |-> "none", code |-> 0, status |-> "", mb |-> 0, dirs |-> 0]

\* an open handle on input.mp4 outlives the removal of its directory: what
\* is written through it afterwards reaches no path
MarkOrphans(js, removed) ==
    [q \in Reqs |->
        IF js[q].pc = "reading" /\ js[q].job_id \in removed
        THEN [js[q] EXCEPT !.orphan = TRUE]
        ELSE js[q]]

Init ==
    /\ tempExists = TRUE
    /\ fs = [i \in JobIds |-> NoDir]
    /\ jobs = [r \in Reqs |-> NewJob]
    /\ loop = NoReq
    /\ lastResp = NoResp
    /\ build = NoBuild

\* ---------------------------------------------------- GET /health, /storage
health ==
    /\ loop = NoReq
    /\ lastResp' = [ep |-> "health", code |-> 200, status |-> "healthy",
                    mb |-> 0, dirs |-> 0]
    /\ UNCHANGED <<tempExists, fs, jobs, loop, build>>

\* the body storage_info returns in a state, lines 79-85
StorageReport(exists, f) ==
    [ep |-> "storage", code |-> 200, status |-> "",
     mb |-> Round2MB(get_storage_usage(exists, f)),
     dirs |-> JobDirCount(exists, f)]

storage_info ==
    /\ loop = NoReq
    /\ lastResp' = StorageReport(tempExists, fs)
    /\ UNCHANGED <<tempExists, fs, jobs, loop, build>>

\* ------------------------------------------------------- DELETE /cleanup
\* a measurement taken after the wipe
FreedMB_AfterWipe(exists, f) == Round2MB(0)

\* the amount manual_cleanup reports: measured at line 93, before line 94
FreedMB(exists, f) == Round2MB(get_storage_usage(exists, f))

manual_cleanup ==
    /\ loop = NoReq
    /\ IF tempExists
       THEN \E rmOk \in BOOLEAN, mkOk \in BOOLEAN, gone \in SUBSET JobIds :
            LET before_mb == FreedMB(tempExists, fs)
            IN  IF rmOk
                THEN \* shutil.rmtree(TEMP_DIR) removed the root and all under it
                     /\ gone = JobIds
                     /\ fs' = [i \in JobIds |-> NoDir]
                     /\ jobs' = MarkOrphans(jobs, JobIds)
                     /\ tempExists' = mkOk
                     /\ lastResp' =
                          IF mkOk
                          THEN [ep |-> "cleanup", code |-> 200, status |-> "cleaned",
                                mb |-> before_mb, dirs |-> 0]
                          ELSE [ep |-> "cleanup", code |-> 500, status |-> "error",
                                mb |-> 0, dirs |-> 0]
                ELSE \* rmtree raised part way: the root stays, some entries are gone
                     /\ mkOk
                     /\ fs' = [i \in JobIds |-> IF i \in gone THEN NoDir ELSE fs[i]]
                     /\ jobs' = MarkOrphans(jobs, gone)
                     /\ tempExists' = TRUE
                     /\ lastResp' = [ep |-> "cleanup", code |-> 500, status |-> "error",
                                     mb |-> 0, dirs |-> 0]
       ELSE /\ lastResp' = [ep |-> "cleanup", code |-> 200, status |-> "already_empty",
                            mb |-> 0, dirs |-> 0]
            /\ UNCHANGED <<tempExists, fs, jobs>>
    /\ UNCHANGED <<loop, build>>

\* ---------------------------------------------------------- POST /render
Set(r, rec) == [jobs EXCEPT ![r] = rec]

\* f.write(content), line 129, through the handle opened at line 127: the
\* bytes land at offset 0 of the file the handle was opened on
WriteInput(f, id, r, size, orphan) ==
    IF orphan \/ ~f[id].exists \/ ~FileExists(f[id].input) THEN f
    ELSE [f EXCEPT ![id].input =
            [size |-> IF f[id].input.size > size THEN f[id].input.size ELSE size,
             by |-> r]]

\* uuid4 draws any token, one already drawn included.  Tokens are
\* interchangeable, so the tokens not drawn yet are drawn in increasing order.
DrawableIds ==
    {i \in JobIds : \A j \in JobIds : j < i => \E q \in Reqs : jobs[q].job_id = j}

\* Request r is the r-th POST /render to arrive.
\* lines 120-128: job id, job_dir.mkdir(exist_ok=True) (outside the try),
\* open(video_path, "wb"), then the handler awaits video.read()
RenderStart(r) ==
    /\ loop = NoReq
    /\ jobs[r].pc = "idle"
    /\ \A q \in Reqs : q < r => jobs[q].pc # "idle"
    /\ \E id \in DrawableIds, mkOk \in BOOLEAN, openOk \in BOOLEAN :
         IF ~tempExists \/ ~mkOk
         THEN \* mkdir raises before the try: no handler of render_video sees it
              /\ openOk
              /\ jobs' = Set(r, [jobs[r] EXCEPT !.job_id = id, !.pc = "done",
                                   !.resp = "unhandled", !.status = 500])
              /\ UNCHANGED <<fs, loop>>
         ELSE LET made == IF fs[id].exists THEN fs ELSE [fs EXCEPT ![id] = EmptyDir]
              IN  IF openOk
                  THEN /\ fs' = [made EXCEPT ![id].input = [size |-> 0, by |-> r]]
                       /\ jobs' = Set(r, [jobs[r] EXCEPT !.job_id = id,
                                            !.created = TRUE, !.pc = "reading"])
                       /\ UNCHANGED loop
                  ELSE /\ fs' = made
                       /\ jobs' = Set(r, [jobs[r] EXCEPT !.job_id = id,
                                            !.created = TRUE, !.pc = "failed",
                                            !.exc = "Exception"])
                       /\ loop' = r
    /\ lastResp' = NoResp
    /\ UNCHANGED <<tempExists, build>>

\* lines 128-171: video.read() returns, the upload is written and its handle
\* closed, the subtitle text is written, the command is built
RenderRead(r) ==
    /\ loop = NoReq
    /\ jobs[r].pc = "reading"
    /\ \E size \in VideoSizes, ssz \in SrtSizes, ioOk \in BOOLEAN, srtOk \in BOOLEAN :
         LET id == jobs[r].job_id
             wrote == WriteInput(fs, id, r, size, jobs[r].orphan)
         IN  IF ~ioOk
             THEN /\ srtOk
                  /\ fs' = fs
                  /\ jobs' = Set(r, [jobs[r] EXCEPT !.pc = "failed", !.orphan = FALSE,
                                       !.exc = "Exception"])
             ELSE IF ~wrote[id].exists \/ ~srtOk
             THEN \* open(srt_path, "w") raises
                  /\ fs' = wrote
                  /\ jobs' = Set(r, [jobs[r] EXCEPT !.pc = "failed", !.orphan = FALSE,
                                       !.exc = "Exception"])
             ELSE /\ fs' = [wrote EXCEPT ![id].srt = [size |-> ssz, by |-> r]]
                  /\ jobs' = Set(r, [jobs[r] EXCEPT !.pc = "populated", !.orphan = FALSE])
    /\ loop' = r
    /\ lastResp' = NoResp
    /\ UNCHANGED <<tempExists, build>>

\* an invocation that does not wait for the files
RenderInvoke_Early(r) ==
    /\ loop \in {NoReq, r}
    /\ jobs[r].pc \in {"reading", "populated"}
    /\ \E launchOk \in BOOLEAN :
         jobs' = Set(r, IF launchOk
                        THEN [jobs[r] EXCEPT !.pc = "encoding", !.proc = "running",
                                             !.nrun = @ + 1]
                        ELSE [jobs[r] EXCEPT !.pc = "failed", !.exc = "Exception",
                                             !.nrun = @ + 1])
    /\ loop' = r
    /\ lastResp' = NoResp
    /\ UNCHANGED <<tempExists, fs, build>>

\* line 176: subprocess.run starts the encoder, on the event-loop thread
RenderInvoke(r) ==
    /\ loop = r
    /\ jobs[r].pc = "populated"
    /\ \E launchOk \in BOOLEAN :
         jobs' = Set(r, IF launchOk
                        THEN [jobs[r] EXCEPT !.pc = "encoding", !.proc = "running",
                                             !.nrun = @ + 1]
                        ELSE [jobs[r] EXCEPT !.pc = "failed", !.exc = "Exception",
                                             !.nrun = @ + 1])
    /\ lastResp' = NoResp
    /\ UNCHANGED <<tempExists, fs, loop, build>>

\* what the encoder leaves at output_path (it runs with -y)
EncoderOutput(f, id, r, wrote, osz) ==
    IF wrote /\ f[id].exists
    THEN [f EXCEPT ![id].output = [size |-> osz, by |-> r]]
    ELSE f

\* the encoder exits within the timeout; subprocess.run returns
EncodeExit(r) ==
    /\ loop = r
    /\ jobs[r].pc = "encoding"
    /\ \E rc \in {0, 1}, wrote \in BOOLEAN, osz \in OutputSizes :
         /\ fs' = EncoderOutput(fs, jobs[r].job_id, r, wrote, osz)
         /\ jobs' = Set(r, [jobs[r] EXCEPT !.pc = "checking", !.proc = "exited",
                              !.returncode = rc])
    /\ lastResp' = NoResp
    /\ UNCHANGED <<tempExists, loop, build>>

\* the timeout of line 180 elapses: subprocess.run kills the child, waits
\* for it and raises TimeoutExpired
EncodeTimeout(r) ==
    /\ loop = r
    /\ jobs[r].pc = "encoding"
    /\ \E wrote \in BOOLEAN, osz \in OutputSizes :
         /\ fs' = EncoderOutput(fs, jobs[r].job_id, r, wrote, osz)
         /\ jobs' = Set(r, [jobs[r] EXCEPT !.pc = "failed", !.proc = "killed",
                              !.exc = "TimeoutExpired"])
    /\ lastResp' = NoResp
    /\ UNCHANGED <<tempExists, loop, build>>

\* a check that forgets to look for the output file
EncodeCheck_NoOutputCheck(returncode, outputExists) ==
    IF returncode # 0 THEN [ok |-> FALSE, detail |-> "FFmpeg error"]
    ELSE [ok |-> TRUE, detail |-> ""]

\* a check that ignores the encoder's exit code
EncodeCheck_NoExitCheck(returncode, outputExists) ==
    IF ~outputExists THEN [ok |-> FALSE, detail |-> "Output file not created"]
    ELSE [ok |-> TRUE, detail |-> ""]

\* lines 183-191: the two checks on the encoder's result
EncodeCheck(returncode, outputExists) ==
    IF returncode # 0 THEN [ok |-> FALSE, detail |-> "FFmpeg error"]
    ELSE IF ~outputExists THEN [ok |-> FALSE, detail |-> "Output file not created"]
    ELSE [ok |-> TRUE, detail |-> ""]

\* a handler that reclaims on the success path before it returns the response
RenderCheck_EagerCleanup(r) ==
    /\ loop = r
    /\ jobs[r].pc = "checking"
    /\ LET d == fs[jobs[r].job_id]
           seen == d.exists /\ FileExists(d.output)
           c == EncodeCheck(jobs[r].returncode, seen)
           checked == jobs[r].returncode = 0 /\ seen
           k == cleanup_job_dir(fs, jobs[r].job_id, TRUE)
       IN  IF c.ok
           THEN /\ jobs' = Set(r, [jobs[r] EXCEPT !.pc = "returned", !.outExists = checked,
                                     !.scheduled = TRUE, !.resp = "video",
                                     !.status = 200, !.reclaim = k.outcome])
                /\ fs' = k.fs
                /\ loop' = NoReq
           ELSE /\ jobs' = Set(r, [jobs[r] EXCEPT !.pc = "cleanup", !.outExists = checked,
                                     !.detail = c.detail])
                /\ UNCHANGED <<fs, loop>>
    /\ lastResp' = NoResp
    /\ UNCHANGED <<tempExists, build>>

\* lines 183-204: on success the cleanup is added to the background tasks
\* and the FileResponse is returned
RenderCheck(r) ==
    /\ loop = r
    /\ jobs[r].pc = "checking"
    /\ LET d == fs[jobs[r].job_id]
           seen == d.exists /\ FileExists(d.output)
           c == EncodeCheck(jobs[r].returncode, seen)
           checked == jobs[r].returncode = 0 /\ seen
       IN  IF c.ok
           THEN /\ jobs' = Set(r, [jobs[r] EXCEPT !.pc = "returned", !.outExists = checked,
                                     !.scheduled = TRUE, !.resp = "video",
                                     !.status = 200])
                /\ loop' = NoReq
           ELSE /\ jobs' = Set(r, [jobs[r] EXCEPT !.pc = "cleanup", !.outExists = checked,
                                     !.detail = c.detail])
                /\ UNCHANGED loop
    /\ lastResp' = NoResp
    /\ UNCHANGED <<tempExists, fs, build>>

\* clauses without "except HTTPException: raise": the HTTPException raised at
\* lines 187 and 191 falls into the general clause
ExceptClause_NoReraise(exc) ==
    IF exc = "TimeoutExpired" THEN [cleanup |-> TRUE, detail |-> "Processing timeout"]
    ELSE [cleanup |-> TRUE, detail |-> "str(e)"]

\* a timeout clause that reports the timeout and leaves the workspace
ExceptClause_TimeoutKeepsDir(exc) ==
    IF exc = "TimeoutExpired" THEN [cleanup |-> FALSE, detail |-> "Processing timeout"]
    ELSE IF exc = "HTTPException" THEN [cleanup |-> FALSE, detail |-> ""]
    ELSE [cleanup |-> TRUE, detail |-> "str(e)"]

\* except clauses that re-raise without reclaiming
ExceptClause_NoCleanup(exc) ==
    IF exc = "TimeoutExpired" THEN [cleanup |-> FALSE, detail |-> "Processing timeout"]
    ELSE IF exc = "HTTPException" THEN [cleanup |-> FALSE, detail |-> ""]
    ELSE [cleanup |-> FALSE, detail |-> "str(e)"]

\* lines 206-214: what each except clause does with the exception it catches
ExceptClause(exc) ==
    IF exc = "TimeoutExpired" THEN [cleanup |-> TRUE, detail |-> "Processing timeout"]
    ELSE IF exc = "HTTPException" THEN [cleanup |-> FALSE, detail |-> ""]
    ELSE [cleanup |-> TRUE, detail |-> "str(e)"]

\* a handler that runs the encoder again after a timeout
RenderExcept_Retry(r) ==
    /\ loop = r
    /\ jobs[r].pc = "failed"
    /\ LET h == ExceptClause(jobs[r].exc)
       IN  jobs' = Set(r, IF jobs[r].exc = "TimeoutExpired"
                          THEN [jobs[r] EXCEPT !.pc = "populated", !.exc = "none"]
                          ELSE IF h.cleanup
                          THEN [jobs[r] EXCEPT !.pc = "cleanup", !.detail = h.detail]
                          ELSE [jobs[r] EXCEPT !.pc = "raising"])
    /\ lastResp' = NoResp
    /\ UNCHANGED <<tempExists, fs, loop, build>>

RenderExcept(r) ==
    /\ loop = r
    /\ jobs[r].pc = "failed"
    /\ LET h == ExceptClause(jobs[r].exc)
       IN  jobs' = Set(r, IF h.cleanup
                          THEN [jobs[r] EXCEPT !.pc = "cleanup", !.detail = h.detail]
                          ELSE [jobs[r] EXCEPT !.pc = "raising"])
    /\ lastResp' = NoResp
    /\ UNCHANGED <<tempExists, fs, loop, build>>

\* cleanup_job_dir(job_dir) called by the handler: lines 186, 190 (then the
\* HTTPException is raised inside the try), 207 and 213 (inside an except
\* clause)
RenderCleanup(r) ==
    /\ loop = r
    /\ jobs[r].pc = "cleanup"
    /\ \E rmOk \in BOOLEAN :
         LET c == cleanup_job_dir(fs, jobs[r].job_id, rmOk)
             after == IF jobs[r].exc = "none"
                      THEN [jobs[r] EXCEPT !.pc = "failed", !.exc = "HTTPException",
                                           !.reclaim = c.outcome, !.ncleanup = @ + 1]
                      ELSE [jobs[r] EXCEPT !.pc = "raising", !.reclaim = c.outcome,
                                           !.ncleanup = @ + 1]
         IN  /\ fs' = c.fs
             /\ jobs' = MarkOrphans(Set(r, after),
                                    IF c.outcome = "deleted" THEN {jobs[r].job_id} ELSE {})
    /\ lastResp' = NoResp
    /\ UNCHANGED <<tempExists, loop, build>>

\* a handler that keeps the exception to itself
RenderRaise_NoResponse(r) ==
    /\ loop = r
    /\ jobs[r].pc = "raising"
    /\ jobs' = Set(r, [jobs[r] EXCEPT !.pc = "raising"])
    /\ loop' = r
    /\ lastResp' = NoResp
    /\ UNCHANGED <<tempExists, fs, build>>

\* the HTTPException leaves the handler: the 500 response
RenderRaise(r) ==
    /\ loop = r
    /\ jobs[r].pc = "raising"
    /\ jobs' = Set(r, [jobs[r] EXCEPT !.pc = "done", !.resp = "error", !.status = 500])
    /\ loop' = NoReq
    /\ lastResp' = NoResp
    /\ UNCHANGED <<tempExists, fs, build>>

\* the FileResponse of lines 200-204 is sent: the file at output_path is
\* streamed, and after it the background task starts in a worker thread
Deliver(r) ==
    /\ loop = NoReq
    /\ jobs[r].pc = "returned"
    /\ LET d == fs[jobs[r].job_id]
       IN  IF d.exists /\ FileExists(d.output)
           THEN jobs' = Set(r, [jobs[r] EXCEPT !.pc = "cleaning", !.sent = "ok",
                                  !.delivered = d.output.by])
           ELSE \* FileResponse finds no file and raises: no task runs
                jobs' = Set(r, [jobs[r] EXCEPT !.pc = "done", !.sent = "failed"])
    /\ lastResp' = NoResp
    /\ UNCHANGED <<tempExists, fs, loop, build>>

\* the task added at line 197 runs cleanup_job_dir in a worker thread
BgCleanup(r) ==
    /\ jobs[r].pc = "cleaning"
    /\ \E rmOk \in BOOLEAN :
         LET c == cleanup_job_dir(fs, jobs[r].job_id, rmOk)
         IN  /\ fs' = c.fs
             /\ jobs' = MarkOrphans(Set(r, [jobs[r] EXCEPT !.pc = "done",
                                              !.reclaim = c.outcome,
                                              !.ncleanup = @ + 1]),
                                    IF c.outcome = "deleted" THEN {jobs[r].job_id} ELSE {})
    /\ lastResp' = NoResp
    /\ UNCHANGED <<tempExists, loop, build>>

Next ==
    \/ health
    \/ storage_info
    \/ manual_cleanup
    \/ \E r \in Reqs : RenderStart(r)
    \/ \E r \in Reqs : RenderRead(r)
    \/ \E r \in Reqs : RenderInvoke(r)
    \/ \E r \in Reqs : EncodeExit(r)
    \/ \E r \in Reqs : EncodeTimeout(r)
    \/ \E r \in Reqs : RenderCheck(r)
    \/ \E r \in Reqs : RenderExcept(r)
    \/ \E r \in Reqs : RenderCleanup(r)
    \/ \E r \in Reqs : RenderRaise(r)
    \/ \E r \in Reqs : Deliver(r)
    \/ \E r \in Reqs : BgCleanup(r)

Spec == Init /\ [][Next]_vars

\* the steps of request r after its arrival
RenderStep(r) ==
    \/ RenderRead(r)
    \/ RenderInvoke(r)
    \/ EncodeExit(r)
    \/ EncodeTimeout(r)
    \/ RenderCheck(r)
    \/ RenderExcept(r)
    \/ RenderCleanup(r)
    \/ RenderRaise(r)
    \/ Deliver(r)
    \/ BgCleanup(r)

\* The server does not stand still while a request has a step to take: the
\* event loop resumes a coroutine that can run, subprocess.run returns or
\* times out after 600 s (line 180), the response is sent and the background
\* task is run.  A request takes finitely many steps, so none is passed over
\* for ever.
FairSpec == Spec /\ WF_vars(\E r \in Reqs : RenderStep(r))

\* ================================================================ claims
\* the directory of request r's job
JobDir(r) == fs[jobs[r].job_id]

\* the request has its final response: an error raised by the handler, or
\* the video streamed to the caller
Answered(j) == j.created /\ (j.resp = "error" \/ j.sent = "ok")

\* C1 (as stated): when a render request completes after its response was
\* delivered, error or video, its job directory does not exist.
C1_NoDirectoryLeft ==
    [][\A r \in Reqs :
        (jobs[r].pc # "done" /\ jobs'[r].pc = "done" /\ Answered(jobs'[r]))
            => ~fs'[jobs'[r].job_id].exists]_vars

\* C1 (amended): when a render request completes after its response was
\* delivered, reclaim has run for its job, and the job directory does not
\* exist at that point unless the deletion made by that reclaim failed.
C1_NoDirectoryLeftUnlessDeleteFails ==
    [][\A r \in Reqs :
        (jobs[r].pc # "done" /\ jobs'[r].pc = "done" /\ Answered(jobs'[r]))
            => /\ jobs'[r].reclaim # "none"
               /\ (jobs'[r].reclaim # "failed" => ~fs'[jobs'[r].job_id].exists)]_vars

C1_Witness ==
    \E r \in Reqs :
        /\ jobs[r].pc = "done" /\ jobs[r].sent = "ok"
        /\ jobs[r].reclaim = "deleted" /\ ~JobDir(r).exists

\* C2: an error response of the handler is emitted only after reclaim was
\* called for the job: a request that is about to raise, or has raised, its
\* HTTP 500 has a reclaim outcome.
C2_ReclaimBeforeError ==
    \A r \in Reqs :
        (jobs[r].pc = "raising" \/ jobs[r].resp = "error") => jobs[r].reclaim # "none"

C2_Witness ==
    \E r \in Reqs, q \in Reqs :
        /\ jobs[r].resp = "error" /\ jobs[r].detail = "FFmpeg error"
        /\ jobs[r].reclaim = "deleted"
        /\ jobs[q].resp = "error" /\ jobs[q].detail = "str(e)"
        /\ jobs[q].reclaim # "none"

\* C3: on the success path reclaim has not run when the handler returns (it
\* is only scheduled), it runs only after the output was streamed to the
\* caller, and a handler that has finished for a created job without
\* reclaim having been called finished on the success path.
C3_SuccessDefersReclaim ==
    \A r \in Reqs :
        /\ jobs[r].pc = "returned" => (jobs[r].reclaim = "none" /\ jobs[r].scheduled)
        /\ (jobs[r].resp = "video" /\ jobs[r].reclaim # "none") => jobs[r].sent = "ok"
        /\ (jobs[r].created /\ jobs[r].resp # "none" /\ jobs[r].reclaim = "none")
              => jobs[r].resp = "video"

C3_Witness ==
    \E r \in Reqs :
        /\ jobs[r].pc = "cleaning" /\ jobs[r].resp = "video"
        /\ jobs[r].sent = "ok" /\ jobs[r].reclaim = "none"
        /\ JobDir(r).exists

\* C4 (as stated): while a request waits in the encode invocation, the
\* other endpoints can be served: /health, /storage and /cleanup are
\* enabled, and so is the start of another render that has arrived.
C4_EncodeBlocksOnlyItself ==
    \A r \in Reqs :
        jobs[r].pc = "encoding" =>
            /\ ENABLED health
            /\ ENABLED storage_info
            /\ ENABLED manual_cleanup
            /\ \A q \in Reqs :
                 (q = r + 1 /\ jobs[q].pc = "idle") => ENABLED RenderStart(q)

\* a job that holds a workspace: created, its handler or its deferred
\* cleanup still to finish
InFlight(j) == j.created /\ j.pc # "done"

\* C5 (as stated): no two jobs in flight have the same workspace directory,
\* and each video that was streamed is the output file written for the
\* request it answers.
C5_JobsIsolated ==
    /\ \A r \in Reqs, q \in Reqs :
         (r # q /\ InFlight(jobs[r]) /\ InFlight(jobs[q]))
            => jobs[r].job_id # jobs[q].job_id
    /\ \A r \in Reqs : jobs[r].sent = "ok" => jobs[r].delivered = r

Reclaimed(j) == j.reclaim \in {"deleted", "absent"}
NotYetReclaimed(j) == j.created /\ ~Reclaimed(j)

\* C7 (as stated): a job directory exists if and only if a job with that
\* identifier has been created and is not yet Reclaimed.
C7_DirIffJobNotReclaimed ==
    \A i \in JobIds :
        fs[i].exists <=> \E r \in Reqs : jobs[r].job_id = i /\ NotYetReclaimed(jobs[r])

\* C7 (amended): a job directory exists only if a job with that identifier
\* has been created and is not yet Reclaimed (and only under an existing
\* temp root); a job that is not yet Reclaimed may have lost its directory.
C7_DirOnlyIfJobNotReclaimed ==
    \A i \in JobIds :
        fs[i].exists =>
            /\ tempExists
            /\ \E r \in Reqs : jobs[r].job_id = i /\ NotYetReclaimed(jobs[r])

C7_Witness ==
    \E r \in Reqs :
        /\ jobs[r].pc = "populated" /\ JobDir(r).exists
        /\ \E q \in Reqs : q # r /\ jobs[q].created /\ Reclaimed(jobs[q])

\* the bytes under the temp root, file by file
TotalBytes ==
    LET B(i) == IF fs[i].exists
                THEN fs[i].input.size + fs[i].srt.size + fs[i].output.size
                ELSE 0
        RECURSIVE Sum(_)
        Sum(n) == IF n = 0 THEN 0 ELSE B(n) + Sum(n - 1)
    IN  IF tempExists THEN Sum(NumIds) ELSE 0

\* C8: a DELETE /cleanup that answers "cleaned" reports the storage total of
\* the state it started in (to the hundredth of a megabyte), and leaves an
\* existing temp root with no job directory and no bytes, where /storage
\* reports zero job directories.
C8_CleanupFreesAll ==
    [][(lastResp'.ep = "cleanup" /\ lastResp'.status = "cleaned") =>
         /\ 2 * lastResp'.mb * 1048576 - 200 * TotalBytes <= 1048576
         /\ 200 * TotalBytes - 2 * lastResp'.mb * 1048576 <= 1048576
         /\ tempExists'
         /\ \A i \in JobIds : ~fs'[i].exists
         /\ StorageReport(tempExists', fs').dirs = 0
         /\ StorageReport(tempExists', fs').mb = 0]_vars

C8_Witness ==
    /\ lastResp.ep = "cleanup" /\ lastResp.status = "cleaned"
    /\ lastResp.mb > 50
    /\ \E r \in Reqs, q \in Reqs : r # q /\ jobs[r].pc = "returned" /\ jobs[q].pc = "returned"
                                    /\ jobs[r].job_id # jobs[q].job_id

C10_VideoOnlyOnSuccess ==
    \A r \in Reqs :
        /\ (jobs[r].resp = "video" \/ jobs[r].sent # "none" \/ jobs[r].scheduled) =>
             /\ jobs[r].proc = "exited" /\ jobs[r].returncode = 0
             /\ jobs[r].outExists /\ jobs[r].exc = "none"
        /\ (jobs[r].proc = "killed" \/ jobs[r].returncode > 0 \/ jobs[r].exc # "none")
             => jobs[r].resp # "video"

C10_Witness ==
    \E r \in Reqs, q \in Reqs :
        /\ jobs[r].resp = "video" /\ jobs[r].sent = "ok"
        /\ jobs[q].returncode = 1 /\ jobs[q].resp = "error"

\* C11: reclaim of a directory that is absent is no error and changes
\* nothing: a reclaim step that finds its job directory absent (after a
\* DELETE /cleanup, or after an earlier reclaim of that directory) ends
\* "absent" and leaves the file system as it was; and in every state, a
\* second reclaim of any directory after a first one that deleted it gives
\* the tree the first one gave.
C11_ReclaimIdempotent ==
    [][/\ \A r \in Reqs :
            (jobs[r].reclaim = "none" /\ jobs'[r].reclaim # "none"
                /\ ~fs[jobs[r].job_id].exists)
                => (jobs'[r].reclaim = "absent" /\ fs' = fs)
       /\ \A i \in JobIds, ok \in BOOLEAN :
            LET once == cleanup_job_dir(fs, i, TRUE)
                twice == cleanup_job_dir(once.fs, i, ok)
            IN  twice.fs = once.fs /\ twice.outcome = "absent"]_vars

C11_Witness ==
    \E r \in Reqs :
        /\ jobs[r].reclaim = "absent" /\ jobs[r].resp = "error"
        /\ jobs[r].pc = "done" /\ tempExists

\* the detail the handler gives for the failure a request met
OriginalDetail(j) ==
    IF j.proc = "killed" THEN "Processing timeout"
    ELSE IF j.proc = "exited" /\ j.returncode # 0 THEN "FFmpeg error"
    ELSE IF j.proc = "exited" THEN "Output file not created"
    ELSE "str(e)"

\* C12: reclaim runs at most once per request, and a reclaim whose deletion
\* failed changes no response: on a failure path the request still ends in
\* the HTTP 500 of its original failure, and after a delivered video the
\* response stays the video.
C12_ReclaimFailureSilent ==
    \A r \in Reqs :
        /\ jobs[r].ncleanup <= 1
        /\ (jobs[r].reclaim = "failed" /\ jobs[r].pc = "done") =>
             \/ /\ jobs[r].resp = "error" /\ jobs[r].status = 500
                /\ jobs[r].detail = OriginalDetail(jobs[r])
             \/ /\ jobs[r].resp = "video" /\ jobs[r].status = 200
                /\ jobs[r].sent = "ok"

C12_Witness ==
    \E r \in Reqs, q \in Reqs :
        /\ jobs[r].reclaim = "failed" /\ jobs[r].pc = "done"
        /\ jobs[r].resp = "error" /\ jobs[r].detail = "FFmpeg error"
        /\ jobs[q].reclaim = "failed" /\ jobs[q].pc = "done"
        /\ jobs[q].resp = "video"

\* C13: the encoder is started at most once per request: once it has
\* exited or was killed it is not started again, and the response of a
\* request, once given, does not change.
C13_EncoderRunsOnce ==
    [][\A r \in Reqs :
        /\ jobs[r].nrun <= 1
        /\ jobs[r].proc \in {"exited", "killed"} => jobs'[r].proc = jobs[r].proc
        /\ jobs[r].resp # "none" =>
             (jobs'[r].resp = jobs[r].resp /\ jobs'[r].status = jobs[r].status)]_vars

C13_Witness ==
    \E r \in Reqs, q \in Reqs :
        /\ jobs[r].pc = "done" /\ jobs[r].proc = "killed" /\ jobs[r].nrun = 1
        /\ jobs[q].pc = "done" /\ jobs[q].proc = "exited" /\ jobs[q].nrun = 1
        /\ jobs[q].resp = "error"

\* C14 (as stated): every render request that ends without a video ends in
\* an HTTP 500 raised by the handler with a reason, the failure to create
\* the job directory included.
C14_EveryFailureClassified ==
    \A r \in Reqs :
        (jobs[r].pc = "done" /\ jobs[r].resp # "video") =>
            /\ jobs[r].resp = "error" /\ jobs[r].status = 500
            /\ jobs[r].detail # ""

\* ============================================= command and error text
\* strings are sequences of characters
SourceHanToken == <<"S", "o", "u", "r", "c", "e", " ", "H", "a", "n">>
NotoToken == <<"N", "o", "t", "o">>
FallbackFont == <<"N", "o", "t", "o", " ", "S", "a", "n", "s", " ", "C", "J", "K", " ", "S", "C">>

\* the font names tried
Font_Arial == <<"A", "r", "i", "a", "l">>
Font_NotoSans == <<"N", "o", "t", "o", " ", "S", "a", "n", "s">>
Font_LowerNoto == <<"n", "o", "t", "o", " ", "s", "a", "n", "s">>
Font_UpperNoto == <<"N", "O", "T", "O", " ", "S", "A", "N", "S">>
Font_SourceHanSans == <<"S", "o", "u", "r", "c", "e", " ", "H", "a", "n", " ", "S", "a", "n", "s">>
Font_LowerSourceHan == <<"s", "o", "u", "r", "c", "e", " ", "h", "a", "n", " ", "s", "a", "n", "s">>
Font_SourceHanNoSpace == <<"S", "o", "u", "r", "c", "e", "H", "a", "n", " ", "S", "a", "n", "s">>
Font_InnerNoto == <<"M", "y", "N", "o", "t", "o", "F", "o", "n", "t">>
Font_NearNoto == <<"N", "o", "t", " ", "o">>
Font_SourceOnly == <<"S", "o", "u", "r", "c", "e">>
Font_EmptyName == <<>>
FontNames ==
    {Font_Arial,
     Font_NotoSans,
     Font_LowerNoto,
     Font_UpperNoto,
     Font_SourceHanSans,
     Font_LowerSourceHan,
     Font_SourceHanNoSpace,
     Font_InnerNoto,
     Font_NearNoto,
     Font_SourceOnly,
     Font_EmptyName}

MaxPathLen == 3
PathChars == {"a", "/", "\\", ":"}
RECURSIVE SeqsUpTo(_)
SeqsUpTo(n) ==
    IF n = 0 THEN {<<>>}
    ELSE LET shorter == SeqsUpTo(n - 1)
         IN  shorter \cup {Append(s, c) : s \in {t \in shorter : Len(t) = n - 1},
                                           c \in PathChars}
\* the subtitle paths tried
Paths == SeqsUpTo(MaxPathLen)

STDERR_TAIL == 500
\* the lengths of the encoder's error stream tried; its i-th character is i
StderrLens == {0, 1, 499, 500, 501, 750}
Stderr(n) == [i \in 1..n |-> i]

\* t in s, for strings
Contains(s, t) ==
    \E i \in 1..(Len(s) - Len(t) + 1) : SubSeq(s, i, i + Len(t) - 1) = t

\* s.replace(c, t) for a one-character c
RECURSIVE Replace(_, _, _)
Replace(s, c, t) ==
    IF s = <<>> THEN <<>>
    ELSE (IF Head(s) = c THEN t ELSE <<Head(s)>>) \o Replace(Tail(s), c, t)

\* an escaping that leaves the colons alone
Escape_SeparatorsOnly(p) == Replace(p, "\\", <<"/">>)

\* line 155: str(srt_path).replace("\\", "/").replace(":", "\\:")
Escape(p) == Replace(Replace(p, "\\", <<"/">>), ":", <<"\\", ":">>)

\* the inverse of the colon rule: a backslash before a colon is dropped
RECURSIVE Unescape(_)
Unescape(s) ==
    IF s = <<>> THEN <<>>
    ELSE IF Len(s) >= 2 /\ s[1] = "\\" /\ s[2] = ":"
    THEN <<":">> \o Unescape(SubSeq(s, 3, Len(s)))
    ELSE <<Head(s)>> \o Unescape(Tail(s))

\* a substitution that knows one token only
ActualFont_SourceHanOnly(font_name) ==
    IF Contains(font_name, SourceHanToken) THEN FallbackFont ELSE font_name

\* line 142
ActualFont(font_name) ==
    IF Contains(font_name, SourceHanToken) \/ Contains(font_name, NotoToken)
    THEN FallbackFont
    ELSE font_name

\* lines 144-152: the style string, as its key=value items in order
ForceStyle(font_size, margin_v, font_name) ==
    << <<"FontSize", font_size>>, <<"MarginV", margin_v>>,
       <<"FontName", ActualFont(font_name)>>,
       <<"PrimaryColour", "&H00FFFFFF">>, <<"OutlineColour", "&H00000000">>,
       <<"Outline", 2>>, <<"Bold", 1>> >>

\* a truncation that keeps the beginning
LastChars_Head(s) == SubSeq(s, 1, IF Len(s) < STDERR_TAIL THEN Len(s) ELSE STDERR_TAIL)

\* result.stderr[-500:], line 187: the slice starts at len - 500, or at the
\* beginning of a shorter string
LastChars(s) ==
    LET start == IF Len(s) - STDERR_TAIL > 0 THEN Len(s) - STDERR_TAIL ELSE 0
    IN  SubSeq(s, start + 1, Len(s))

\* the detail of line 187
FFmpegErrorDetail(stderr) == [prefix |-> "FFmpeg error: ", text |-> LastChars(stderr)]

BuildInit ==
    /\ tempExists = TRUE
    /\ fs = [i \in JobIds |-> NoDir]
    /\ jobs = [r \in Reqs |-> NewJob]
    /\ loop = NoReq
    /\ lastResp = NoResp
    /\ \/ \E p \in Paths : build = [stage |-> "path", path |-> p]
       \/ \E f \in FontNames, size \in {24}, margin \in {0, 30} :
            build = [stage |-> "font", font_name |-> f, font_size |-> size,
                     margin_v |-> margin]
       \/ \E n \in StderrLens : build = [stage |-> "stderr", stderr |-> Stderr(n)]

\* line 155
EscapePath ==
    /\ build.stage = "path"
    /\ build' = [stage |-> "escaped", path |-> build.path, out |-> Escape(build.path)]
    /\ UNCHANGED <<tempExists, fs, jobs, loop, lastResp>>

\* the escaping applied to its own result
EscapeAgain ==
    /\ build.stage = "escaped"
    /\ build' = [stage |-> "escaped twice", path |-> build.path, out |-> build.out,
                 again |-> Escape(build.out)]
    /\ UNCHANGED <<tempExists, fs, jobs, loop, lastResp>>

\* the escaped path read back
UnescapePath ==
    /\ build.stage = "escaped twice"
    /\ build' = [stage |-> "unescaped", path |-> build.path, out |-> build.out,
                 again |-> build.again, back |-> Unescape(build.out)]
    /\ UNCHANGED <<tempExists, fs, jobs, loop, lastResp>>

\* lines 142-152
BuildStyle ==
    /\ build.stage = "font"
    /\ build' = [stage |-> "styled", font_name |-> build.font_name,
                 style |-> ForceStyle(build.font_size, build.margin_v, build.font_name)]
    /\ UNCHANGED <<tempExists, fs, jobs, loop, lastResp>>

\* line 187
ReportStderr ==
    /\ build.stage = "stderr"
    /\ build' = [stage |-> "reported", stderr |-> build.stderr,
                 detail |-> FFmpegErrorDetail(build.stderr)]
    /\ UNCHANGED <<tempExists, fs, jobs, loop, lastResp>>

BuildNext ==
    \/ EscapePath
    \/ EscapeAgain
    \/ UnescapePath
    \/ BuildStyle
    \/ ReportStderr

BuildSpec == BuildInit /\ [][BuildNext]_vars

\* C15 (as stated): escaping an already escaped subtitle path changes nothing,
\* and reading the escaped path back gives the path that was escaped.
C15_EscapeIdempotentRoundTrip ==
    build.stage = "unescaped" =>
        /\ build.again = build.out
        /\ build.back = build.path

\* C15 (amended): reading the escaped path back gives the path with every
\* backslash turned into a forward slash; escaping the escaped path changes
\* nothing exactly when the path has no colon, and otherwise puts a forward
\* slash before each escaped colon.
C15_EscapeNormalisesSeparators ==
    build.stage = "unescaped" =>
        /\ build.back = Replace(build.path, "\\", <<"/">>)
        /\ (build.again = build.out) <=> (\A i \in 1..Len(build.path) : build.path[i] # ":")
        /\ build.again = Replace(build.out, "\\", <<"/", "\\">>)
        /\ \A i \in 1..Len(build.out) : build.out[i] = ":" => (i > 1 /\ build.out[i - 1] = "\\")

C15_Witness ==
    /\ build.stage = "unescaped"
    /\ build.path = <<"a", ":", "\\">>
    /\ build.out = <<"a", "\\", ":", "/">>
    /\ build.again = <<"a", "/", "\\", ":", "/">>
    /\ build.back = <<"a", ":", "/">>

\* the names of FontNames that contain "Source Han" or "Noto" as written
MarkedFonts == {Font_NotoSans, Font_SourceHanSans, Font_InnerNoto}

FontNameOf(style) == style[3][2]

\* C16: the FontName of the style is 'Noto Sans CJK SC' if the requested name
\* contains one of the tokens "Source Han" and "Noto" exactly as written
\* (upper and lower case distinguished), and is the requested name itself,
\* unchanged, otherwise.
C16_FontFallback ==
    build.stage = "styled" =>
        /\ build.style[3][1] = "FontName"
        /\ build.font_name \in MarkedFonts => FontNameOf(build.style) = FallbackFont
        /\ build.font_name \notin MarkedFonts => FontNameOf(build.style) = build.font_name

C16_Witness ==
    /\ build.stage = "styled"
    /\ build.font_name = Font_InnerNoto
    /\ FontNameOf(build.style) = FallbackFont

C16_WitnessVerbatim ==
    /\ build.stage = "styled"
    /\ build.font_name = Font_LowerSourceHan
    /\ FontNameOf(build.style) = Font_LowerSourceHan

\* C18: the reason of an encoder error carries the last 500 characters of the
\* encoder's error stream, in order, and the whole stream when it has 500
\* characters or fewer.
C18_StderrTail ==
    build.stage = "reported" =>
        LET s == build.stderr
            t == build.detail.text
        IN  /\ build.detail.prefix = "FFmpeg error: "
            /\ Len(s) <= 500 => t = s
            /\ Len(s) > 500 =>
                 /\ Len(t) = 500
                 /\ \A i \in 1..500 : t[i] = s[Len(s) - 500 + i]

C18_Witness ==
    /\ build.stage = "reported"
    /\ Len(build.stderr) = 501
    /\ Len(build.detail.text) = 500
    /\ build.detail.text[1] = 2
    /\ build.detail.text[500] = 501

\* the steps of a job that goes well, in the order of the handler's text
StepOrder == <<"idle", "reading", "populated", "encoding", "checking", "returned", "cleaning">>
ForwardSteps == {StepOrder[i] : i \in 2..Len(StepOrder)}
FailureSteps == {"failed", "cleanup", "raising"}
StepIndex(pc) == CHOOSE i \in 1..Len(StepOrder) : StepOrder[i] = pc

\* C17: the steps of one job follow each other in the handler's order, one at
\* a time: a job enters a step only from the step just before it, the encoder
\* is started only by a job whose directory was made and whose upload and
\* subtitle text were written (the job's own upload is in the directory unless
\* another job drew the same id), and a job in which a step failed goes on to
\* reclaim and report only.
C17_StepsSequential ==
    [][\A r \in Reqs :
        LET a == jobs[r].pc
            b == jobs'[r].pc
            id == jobs'[r].job_id
        IN  /\ (a # b /\ b \in ForwardSteps) =>
                 (a \in ForwardSteps \cup {"idle"} /\ StepIndex(b) = StepIndex(a) + 1)
            /\ (a # b /\ b = "populated") =>
                 /\ jobs[r].created
                 /\ fs'[id].exists /\ fs'[id].srt.by = r
                 /\ \/ fs'[id].input.by = r /\ fs'[id].input.size > 0
                    \/ \E q \in Reqs \ {r} : jobs[q].job_id = id
            /\ (jobs[r].proc = "none" /\ jobs'[r].proc # "none") => a = "populated"
            /\ (a # b /\ a \in FailureSteps) => b \in FailureSteps \cup {"done"}
            /\ a = "done" => b = "done"
            /\ (jobs[r].exc # "none" /\ a # b) => b \in FailureSteps \cup {"done"}]_vars

C17_Witness ==
    \E r, q \in Reqs :
        /\ jobs[r].pc = "done" /\ jobs[r].resp = "video" /\ jobs[r].sent = "ok"
        /\ jobs[q].pc = "done" /\ jobs[q].resp = "error" /\ jobs[q].proc = "none"
        /\ jobs[q].created

\* C19 (as stated): the temp root directory exists in every state, also after
\* a cleanup call that failed and answered 500.
C19_TempRootAlwaysExists == tempExists

\* what the caller of a render request has received
ClientGot(j) ==
    IF j.resp \in {"error", "unhandled"} THEN "500"
    ELSE IF j.sent = "ok" THEN "video"
    ELSE IF j.sent = "failed" THEN "500"
    ELSE "none"

\* a request that has not arrived, or has ended and been answered
Settled(j) == j.pc = "idle" \/ (j.pc = "done" /\ ClientGot(j) # "none")

\* C20: every render request that has arrived is answered in the end, by the
\* video or by a 500, and the answer it got stays the only one; cleanup calls
\* taken at any point in between do not keep it from ending.  A request that
\* has arrived stays arrived and one that has ended stays as it ended, so that
\* all requests are settled again and again exactly when each request that has
\* arrived ends.
C20_EveryRenderAnswered ==
    /\ []<>(\A r \in Reqs : Settled(jobs[r]))
    /\ [][\A r \in Reqs :
            /\ jobs[r].pc # "idle" => jobs'[r].pc # "idle"
            /\ ClientGot(jobs[r]) # "none" => ClientGot(jobs'[r]) = ClientGot(jobs[r])
            /\ jobs[r].pc = "done" => jobs'[r] = jobs[r]]_vars

\* a request whose directory a cleanup call took away while the upload was
\* read, answered by a 500 all the same
C20_Witness ==
    \E r \in Reqs :
        /\ jobs[r].pc = "done"
        /\ ClientGot(jobs[r]) = "500"
        /\ jobs[r].created
        /\ jobs[r].proc = "none"
        /\ jobs[r].reclaim = "absent"
        /\ \A q \in Reqs \ {r} : jobs[q].pc = "idle"

====
